---- MODULE Spec2Model ----
(***************************************************************************)
(* Creative-report: weighted allocation of integer totals across N         *)
(* creatives.  Two source variants are modelled side by side:              *)
(*   src/unnamed/part_000  generateWeights / distributeIntegerTotal /      *)
(*                         toCSV / handleGenerate (Generate-button page)   *)
(*   src/app/page.tsx      generateWeights / distribute / exportCsv        *)
(*                                                                         *)
(* Number representation.  JavaScript numbers are modelled as exact        *)
(* rationals:                                                              *)
(*   - a count or a total is an integer number of 1/Fix units, so that a   *)
(*     non-integer entry such as 2.5 is a value of the model;              *)
(*   - a raw weight is an integer number of 1/Unit units (Unit = 1/0.0001, *)
(*     the resolution of the epsilon of part_000 line 41);                 *)
(*   - a weight vector is [num |-> <<n1..nk>>, den |-> d], entry i being   *)
(*     the rational n_i / d.  generateWeights returns den = sum of num.    *)
(* Floating-point rounding error of the double arithmetic is not modelled. *)
(***************************************************************************)
EXTENDS Integers, Sequences, FiniteSets, TLC

Fix == 2
Unit == 10000
Epsilon == 1

MaxCount == 4
MaxTotal == 5

\* the core functions called in isolation;
\*   loopSteps  the number of iterations the last call's loop ran: the for
\*              loop of generateWeights and of distribute, the while loop of
\*              distributeIntegerTotal
VARIABLES phase, caller, count, profile, weights, total, allocator, result, loopSteps

\* the CSV serializers called on rows the pages can hold:
\*   csvBy      which serializer produced csvText ("none" before any call)
\*   csvRows    the rows handed to it
\*   csvLabels  primaryEventLabel, secondaryEventLabel, secondaryEventEnabled
\*   csvText    the text handed to the download, a sequence of characters
VARIABLES csvBy, csvRows, csvLabels, csvText

\* the Generate-button page (part_000): its useState fields, and
\*   effects    what the last handler call did outside the component state:
\*              Math.random() draws, allocator calls, file handed to the browser
VARIABLES creativeCount, totalImpressions, totalInstalls, totalPaidEvents, style,
          rows, error, effects

\* one generation cycle of either page, from the inputs to the rows:
\*   genBy       "handleGenerate" (part_000), "creatives" (page.tsx), or
\*               "none" between cycles
\*   genCount    the creative count of the cycle
\*   genTotals   the total of each metric, by the metric's field name
\*   genEnabled  secondaryEventEnabled (page.tsx)
\*   genWeights  the weight vector the cycle drew
\*   genDraws    the Math.random() calls of the cycle
\*   genRows     the rows the cycle built
VARIABLES genBy, genCount, genTotals, genEnabled, genWeights, genDraws, genRows

coreVars == <<phase, caller, count, profile, weights, total, allocator, result,
             loopSteps>>

csvVars == <<csvBy, csvRows, csvLabels, csvText>>

inputVars == <<creativeCount, totalImpressions, totalInstalls, totalPaidEvents, style>>

pageVars == <<inputVars, rows, error, effects>>

genVars == <<genBy, genCount, genTotals, genEnabled, genWeights, genDraws, genRows>>

vars == <<coreVars, csvVars, pageVars, genVars>>

----------------------------------------------------------------------------
(* number helpers *)

Num(n) == n * Fix

IsInteger(x) == x % Fix = 0

RECURSIVE SeqSum(_)
SeqSum(s) == IF s = <<>> THEN 0 ELSE s[1] + SeqSum(Tail(s))

\* Math.floor(n / d), d > 0
jsFloor(n, d) == n \div d

\* Math.round(n / d), d > 0: nearest integer, halves go up
jsRound(n, d) == (2 * n + d) \div (2 * d)

NoWeights == [num |-> <<>>, den |-> 1]

WLen(w) == Len(w.num)

----------------------------------------------------------------------------
(* Math.random(): a draw in [0, 1), in 1/Unit units.  The draw Unit stands *)
(* for the largest double below 1 (1 - 2^-53), which is 1.0000 at this     *)
(* resolution.                                                             *)

Draws == {0, Unit \div 2, Unit}

Styles == {"balanced", "moderate", "high"}
Variances == {"balanced", "medium", "high"}

\* -Math.log(u + 1e-9) in 1/Unit units, rounded to the nearest unit:
\*   u = 0      : -ln(1e-9)       = 20.7233
\*   u = 0.5    : -ln(0.5 + 1e-9) =  0.6931
\*   u = 1-2^-53: -ln(1 + 1e-9)   = -1e-9  (not positive)
negLog(u) ==
  IF u = 0 THEN 207233
  ELSE IF u = Unit \div 2 THEN 6931
  ELSE 0

\* part_000 lines 27-39: the raw weight of one bucket
drawWeight(st, u) ==
  IF st = "balanced" THEN Unit + ((u - Unit \div 2) * 2) \div 10
  ELSE IF st = "moderate" THEN Unit \div 2 + u
  ELSE negLog(u)

\* mutant: the guard of line 41 left out
clampWeightNone(w) == w

\* part_000 line 41
clampWeight(w) == IF w <= 0 THEN Epsilon ELSE w

\* the number of iterations of "for (let i = 0; i < count; i++)"
Iterations(c) == IF c <= 0 THEN 0 ELSE (c + Fix - 1) \div Fix

\* part_000 generateWeights; rnd is the sequence of Math.random() results
generateWeights(c, st, rnd) ==
  IF c <= 0 THEN NoWeights
  ELSE LET raw == [i \in 1..Iterations(c) |-> clampWeight(drawWeight(st, rnd[i]))]
       IN  [num |-> raw, den |-> SeqSum(raw)]

\* page.tsx lines 21-32: factor, in tenths
factorOf(variance) ==
  IF variance = "balanced" THEN 2
  ELSE IF variance = "medium" THEN 10
  ELSE 30

\* page.tsx generateWeights
generateWeightsPage(c, variance, rnd) ==
  IF c <= 0 THEN NoWeights
  ELSE LET raw == [i \in 1..Iterations(c) |-> Unit + (rnd[i] * factorOf(variance)) \div 10]
       IN  [num |-> raw, den |-> SeqSum(raw)]

----------------------------------------------------------------------------
(* part_000 distributeIntegerTotal: largest-remainder allocation.          *)
(* rawValues[i] = num[i]*t / (den*Fix); floors and fractional parts are    *)
(* taken over the common denominator den*Fix.  An allocation vector holds  *)
(* its entries in 1/Fix units, like the total it splits.                   *)

zeros(n) == [i \in 1..n |-> 0]

\* rawValues.map((v) => Math.floor(v))
floorsOf(t, w) == [i \in 1..WLen(w) |-> Num(jsFloor(w.num[i] * t, w.den * Fix))]

\* { idx, frac: v - floors[idx] }, frac as a numerator over den*Fix
fracOf(t, w) ==
  [i \in 1..WLen(w) |-> [idx |-> i, frac |-> (w.num[i] * t) % (w.den * Fix)]]

\* mutant: equal fractional parts end up in reverse index order
insertDescTiesLast(sorted, e) ==
  LET k == Cardinality({j \in 1..Len(sorted) : sorted[j].frac > e.frac})
  IN  SubSeq(sorted, 1, k) \o <<e>> \o SubSeq(sorted, k + 1, Len(sorted))

\* mutant: the comparator is a.frac - b.frac, an ascending stable sort
insertAsc(sorted, e) ==
  LET k == Cardinality({j \in 1..Len(sorted) : sorted[j].frac <= e.frac})
  IN  SubSeq(sorted, 1, k) \o <<e>> \o SubSeq(sorted, k + 1, Len(sorted))

\* frac.sort((a, b) => b.frac - a.frac): a stable sort, descending by frac.
\* An element goes behind every element already placed whose frac is not
\* smaller, so equal fracs keep their original order.
insertDesc(sorted, e) ==
  LET k == Cardinality({j \in 1..Len(sorted) : sorted[j].frac >= e.frac})
  IN  SubSeq(sorted, 1, k) \o <<e>> \o SubSeq(sorted, k + 1, Len(sorted))

RECURSIVE sortDesc(_)
sortDesc(s) ==
  IF s = <<>> THEN <<>>
  ELSE insertDesc(sortDesc(SubSeq(s, 1, Len(s) - 1)), s[Len(s)])

\* while (remainder > 0 && i < frac.length) { result[frac[i].idx] += 1; ... }
\* i is 0-based as in the code; remainder is in 1/Fix units
RECURSIVE award(_, _, _, _)
award(res, frac, remainder, i) ==
  IF remainder > 0 /\ i < Len(frac)
  THEN award([res EXCEPT ![frac[i + 1].idx] = @ + Num(1)], frac, remainder - Num(1), i + 1)
  ELSE res

\* mutant: the floors are returned without the extra units
largestRemainderFloorsOnly(t, w) == floorsOf(t, w)

\* lines 54-76: the body after the guard
largestRemainder(t, w) ==
  LET floors == floorsOf(t, w)
      remainder == t - SeqSum(floors)
  IN  award(floors, sortDesc(fracOf(t, w)), remainder, 0)

\* mutant: the guard tests total === 0 instead of total <= 0
distributeIntegerTotalZeroOnly(t, w) ==
  IF t = 0 \/ WLen(w) = 0 THEN zeros(WLen(w))
  ELSE largestRemainder(t, w)

distributeIntegerTotal(t, w) ==
  IF t <= 0 \/ WLen(w) = 0 THEN zeros(WLen(w))
  ELSE largestRemainder(t, w)

----------------------------------------------------------------------------
(* page.tsx distribute: running remainder, the last bucket takes the rest. *)

\* mutant: Math.floor in place of Math.round
roundedShareFloor(t, w, i) == Num(jsFloor(w.num[i] * t, w.den * Fix))

\* lines 56-57: Math.round(total * weights[i])
roundedShare(t, w, i) == Num(jsRound(w.num[i] * t, w.den * Fix))

\* lines 52-61, i 0-based as in the code
RECURSIVE distributeLoop(_, _, _, _, _)
distributeLoop(t, w, res, remaining, i) ==
  IF i >= WLen(w) THEN res
  ELSE IF i = WLen(w) - 1
       THEN distributeLoop(t, w, [res EXCEPT ![i + 1] = remaining], remaining, i + 1)
       ELSE LET value == roundedShare(t, w, i + 1)
            IN  distributeLoop(t, w, [res EXCEPT ![i + 1] = value],
                               remaining - value, i + 1)

\* mutant: the early return gives an empty array
distributeEmptyEarly(t, w) ==
  IF t <= 0 \/ WLen(w) = 0 THEN <<>>
  ELSE distributeLoop(t, w, zeros(WLen(w)), t, 0)

distribute(t, w) ==
  IF t <= 0 \/ WLen(w) = 0 THEN zeros(WLen(w))
  ELSE distributeLoop(t, w, zeros(WLen(w)), t, 0)

----------------------------------------------------------------------------
(* Iteration counts of the loops.                                          *)

\* "for (let i = 0; i < bound; i++)": the iterations from i on; bound is in
\* 1/Fix units (a count, or Num of a length)
RECURSIVE forSteps(_, _)
forSteps(i, bound) == IF Num(i) < bound THEN 1 + forSteps(i + 1, bound) ELSE 0

\* part_000 line 24 and page.tsx line 35
generateWeightsSteps(c) == IF c <= 0 THEN 0 ELSE forSteps(0, c)

\* page.tsx line 52
distributeSteps(t, w) ==
  IF t <= 0 \/ WLen(w) = 0 THEN 0 ELSE forSteps(0, Num(WLen(w)))

\* part_000 lines 70-74: the iterations of the while loop from i on
RECURSIVE whileSteps(_, _, _)
whileSteps(remainder, i, n) ==
  IF remainder > 0 /\ i < n THEN 1 + whileSteps(remainder - Num(1), i + 1, n) ELSE 0

\* mutant: the while loop tests remainder > 0 alone
RECURSIVE whileStepsNoLength(_)
whileStepsNoLength(remainder) ==
  IF remainder > 0 THEN 1 + whileStepsNoLength(remainder - Num(1)) ELSE 0

distributeIntegerTotalStepsNoLength(t, w) ==
  IF t <= 0 \/ WLen(w) = 0 THEN 0
  ELSE whileStepsNoLength(t - SeqSum(floorsOf(t, w)))

\* part_000 lines 50-74
distributeIntegerTotalSteps(t, w) ==
  IF t <= 0 \/ WLen(w) = 0 THEN 0
  ELSE whileSteps(t - SeqSum(floorsOf(t, w)), 0, Len(sortDesc(fracOf(t, w))))

----------------------------------------------------------------------------
(* Strings are sequences of one-character strings.                         *)

Comma == ","
Quote == "\""
Newline == "\n"

Digit(k) == <<"0", "1", "2", "3", "4", "5", "6", "7", "8", "9">>[k + 1]

RECURSIVE digitsOf(_)
digitsOf(n) == IF n < 10 THEN <<Digit(n)>> ELSE Append(digitsOf(n \div 10), Digit(n % 10))

\* String(v) of a number v held in 1/Fix units: sign, integer digits and,
\* for a non-integer, the decimal point and the fraction digit
String(v) ==
  LET a == IF v < 0 THEN -v ELSE v
  IN  (IF v < 0 THEN <<"-">> ELSE <<>>)
      \o digitsOf(a \div Fix)
      \o (IF a % Fix = 0 THEN <<>> ELSE <<".", Digit(((a % Fix) * 10) \div Fix)>>)

includes(s, c) == \E i \in 1..Len(s) : s[i] = c

\* s.replace(/"/g, '""')
RECURSIVE doubleQuotes(_)
doubleQuotes(s) ==
  IF s = <<>> THEN <<>>
  ELSE (IF s[1] = Quote THEN <<Quote, Quote>> ELSE <<s[1]>>) \o doubleQuotes(Tail(s))

\* part_000 lines 82-89 and page.tsx lines 179-185, applied to String(v)
escape(s) ==
  IF includes(s, Quote) \/ includes(s, Comma) \/ includes(s, Newline)
  THEN <<Quote>> \o doubleQuotes(s) \o <<Quote>>
  ELSE s

\* Array.prototype.join
RECURSIVE join(_, _)
join(parts, sep) ==
  IF parts = <<>> THEN <<>>
  ELSE IF Len(parts) = 1 THEN parts[1]
  ELSE parts[1] \o <<sep>> \o join(Tail(parts), sep)

\* part_000 line 81
toCSVHeaders ==
  << <<"c", "r", "e", "a", "t", "i", "v", "e", "_", "i", "d">>,
     <<"i", "m", "p", "r", "e", "s", "s", "i", "o", "n", "s">>,
     <<"i", "n", "s", "t", "a", "l", "l", "s">>,
     <<"p", "a", "i", "d", "_", "e", "v", "e", "n", "t", "s">> >>

\* part_000 lines 93-98: the values of one row, as strings
toCSVFields(r) ==
  <<String(r.id), String(r.impressions), String(r.installs), String(r.paidEvents)>>

\* part_000 toCSV
toCSV(rs) ==
  IF Len(rs) = 0 THEN <<>>
  ELSE join(<<join(toCSVHeaders, Comma)>>
            \o [k \in 1..Len(rs) |->
                  join([f \in 1..4 |-> escape(toCSVFields(rs[k])[f])], Comma)],
            Newline)

\* page.tsx line 133: `Creative ${i + 1}`
creativeName(i) == <<"C", "r", "e", "a", "t", "i", "v", "e", " ">> \o String(Num(i))

\* page.tsx lines 154-161; filter(Boolean) drops undefined and the empty string
exportCsvHeaders(labels) ==
  LET all == << <<"C", "r", "e", "a", "t", "i", "v", "e">>,
                <<"I", "m", "p", "r", "e", "s", "s", "i", "o", "n", "s">>,
                <<"C", "l", "i", "c", "k", "s">>,
                <<"I", "n", "s", "t", "a", "l", "l", "s">>,
                labels.primary >>
             \o (IF labels.enabled THEN <<labels.secondary>> ELSE <<>>)
  IN  SelectSeq(all, LAMBDA h : h # <<>>)

\* page.tsx lines 167-176: the values of one row, as strings
exportCsvFields(r, labels) ==
  <<r.name, String(r.impressions), String(r.clicks), String(r.installs),
    String(r.primaryEvents)>>
  \o (IF labels.enabled THEN <<String(r.secondaryEvents)>> ELSE <<>>)

\* page.tsx exportCsv: the text of the file
exportCsv(rs, labels) ==
  join(<<join(exportCsvHeaders(labels), Comma)>>
       \o [k \in 1..Len(rs) |->
             LET cols == exportCsvFields(rs[k], labels)
             IN  join([f \in 1..Len(cols) |-> escape(cols[f])], Comma)],
       Newline)

----------------------------------------------------------------------------
(* The core functions called in isolation: a weight vector is produced by  *)
(* one of the generators, or handed in by a caller, and one allocator is   *)
(* applied to it.                                                          *)

Counts == (-Fix)..Num(MaxCount)
Totals == (-Fix)..Num(MaxTotal)

RECURSIVE SeqsUpTo(_, _)
SeqsUpTo(S, n) ==
  IF n = 0 THEN {<<>>}
  ELSE LET shorter == SeqsUpTo(S, n - 1)
       IN  shorter \cup {Append(s, x) : s \in {q \in shorter : Len(q) = n - 1}, x \in S}

\* weight vectors a caller may hand to an allocator: negative, zero and
\* positive entries, summing to 1 (den = sum) or not (den = 3)
WeightNums == {-1, 0, 1, 3}
WeightInputs ==
  {[num |-> s, den |-> d] : s \in SeqsUpTo(WeightNums, MaxCount), d \in {3}}
  \cup {[num |-> s, den |-> SeqSum(s)] :
          s \in {q \in SeqsUpTo(WeightNums, MaxCount) : SeqSum(q) > 0}}

CoreInit ==
  /\ phase = "idle"
  /\ caller = "none"
  /\ count = 0
  /\ profile = "balanced"
  /\ weights = NoWeights
  /\ total = 0
  /\ allocator = "none"
  /\ result = <<>>
  /\ loopSteps = 0

CallGenerateWeights ==
  /\ phase = "idle"
  /\ \E c \in Counts, s \in Styles :
       \E rnd \in [1..Iterations(c) -> Draws] :
         /\ weights' = generateWeights(c, s, rnd)
         /\ count' = c
         /\ loopSteps' = generateWeightsSteps(c)
         /\ profile' = s
  /\ caller' = "generateWeights"
  /\ phase' = "weights"
  /\ UNCHANGED <<total, allocator, result>>

CallGenerateWeightsPage ==
  /\ phase = "idle"
  /\ \E c \in Counts, v \in Variances :
       \E rnd \in [1..Iterations(c) -> Draws] :
         /\ weights' = generateWeightsPage(c, v, rnd)
         /\ count' = c
         /\ loopSteps' = generateWeightsSteps(c)
         /\ profile' = v
  /\ caller' = "generateWeightsPage"
  /\ phase' = "weights"
  /\ UNCHANGED <<total, allocator, result>>

PassWeights ==
  /\ phase = "idle"
  /\ \E w \in WeightInputs :
       /\ weights' = w
       /\ count' = Num(WLen(w))
  /\ caller' = "direct"
  /\ phase' = "weights"
  /\ loopSteps' = 0
  /\ UNCHANGED <<profile, total, allocator, result>>

CallDistributeIntegerTotal ==
  /\ phase = "weights"
  /\ \E t \in Totals :
       /\ total' = t
       /\ result' = distributeIntegerTotal(t, weights)
       /\ loopSteps' = distributeIntegerTotalSteps(t, weights)
  /\ allocator' = "distributeIntegerTotal"
  /\ phase' = "allocated"
  /\ UNCHANGED <<caller, count, profile, weights>>

CallDistribute ==
  /\ phase = "weights"
  /\ \E t \in Totals :
       /\ total' = t
       /\ result' = distribute(t, weights)
       /\ loopSteps' = distributeSteps(t, weights)
  /\ allocator' = "distribute"
  /\ phase' = "allocated"
  /\ UNCHANGED <<caller, count, profile, weights>>

Return ==
  /\ phase = "allocated"
  /\ phase' = "idle"
  /\ caller' = "none"
  /\ count' = 0
  /\ profile' = "balanced"
  /\ weights' = NoWeights
  /\ total' = 0
  /\ allocator' = "none"
  /\ result' = <<>>
  /\ loopSteps' = 0

----------------------------------------------------------------------------
(* Row assembly of the two pages.                                          *)

\* part_000 lines 143-157: the rows a successful handleGenerate builds
handleGenerateRows(cc, ti, tn, tp, st, rnd) ==
  LET w == generateWeights(cc, st, rnd)
      impressionsDist == distributeIntegerTotal(ti, w)
      installsDist == distributeIntegerTotal(tn, w)
      eventsDist == distributeIntegerTotal(tp, w)
  IN  [i \in 1..Iterations(cc) |->
         [id |-> Num(i),
          impressions |-> impressionsDist[i],
          installs |-> installsDist[i],
          paidEvents |-> eventsDist[i]]]

\* page.tsx line 129: Array(n) throws a RangeError when n is not an integer
creativesThrows(n, enabled) == ~enabled /\ ~IsInteger(n)

\* dist[i] ?? 0
orZeroAt(dist, i) == IF i \in DOMAIN dist THEN dist[i] ELSE 0

\* page.tsx lines 118-139: the creatives memo; t holds the five totals.
\* Array.from({ length: n }) has floor(n) entries.
creatives(cc, t, variance, enabled, rnd) ==
  LET n == IF cc < 0 THEN 0 ELSE cc
      w == generateWeightsPage(n, variance, rnd)
      impressionsDist == distribute(t.impressions, w)
      clicksDist == distribute(t.clicks, w)
      installsDist == distribute(t.installs, w)
      primaryEventsDist == distribute(t.primaryEvents, w)
      secondaryEventsDist ==
        IF enabled THEN distribute(t.secondaryEvents, w) ELSE zeros(n \div Fix)
  IN  [i \in 1..(n \div Fix) |->
         [index |-> Num(i),
          name |-> creativeName(i),
          impressions |-> orZeroAt(impressionsDist, i),
          clicks |-> orZeroAt(clicksDist, i),
          installs |-> orZeroAt(installsDist, i),
          primaryEvents |-> orZeroAt(primaryEventsDist, i),
          secondaryEvents |-> orZeroAt(secondaryEventsDist, i)]]

----------------------------------------------------------------------------
(* The two CSV serializers applied to rows and labels the pages can hold.  *)

MaxLabel == 2

LabelChars == {"a", Comma, Quote, Newline}
LabelInputs == SeqsUpTo(LabelChars, MaxLabel)

CsvCounts == {Num(2)}
CsvTotals == {0, Num(12)}

\* page.tsx lines 83-88
DefaultLabels ==
  [primary |-> <<"P", "a", "i", "d", " ", "E", "v", "e", "n", "t", "s">>,
   secondary |-> <<"S", "e", "c", "o", "n", "d", " ", "E", "v", "e", "n", "t">>,
   enabled |-> FALSE]

CsvIdle ==
  /\ csvBy = "none"
  /\ csvRows = <<>>
  /\ csvLabels = DefaultLabels
  /\ csvText = <<>>

\* part_000 downloadCSV -> toCSV(rows), on rows built by handleGenerate
CallToCSV ==
  /\ csvBy = "none"
  /\ \E cc \in CsvCounts, t \in CsvTotals, st \in Styles :
       \E rnd \in [1..Iterations(cc) -> Draws] :
         LET rs == handleGenerateRows(cc, t, t, t, st, rnd)
         IN  /\ csvRows' = rs
             /\ csvText' = toCSV(rs)
  /\ csvBy' = "toCSV"
  /\ UNCHANGED csvLabels

\* page.tsx exportCsv, on the creatives memo and the labels typed by the user
CallExportCsv ==
  /\ csvBy = "none"
  /\ \E cc \in CsvCounts, t \in CsvTotals, v \in Variances,
        p \in LabelInputs, en \in BOOLEAN :
       \E q \in IF en THEN LabelInputs ELSE {DefaultLabels.secondary},
          rnd \in [1..Iterations(cc) -> Draws] :
         LET rs == creatives(cc, [impressions |-> t, clicks |-> t, installs |-> t,
                                  primaryEvents |-> t, secondaryEvents |-> t],
                             v, en, rnd)
             labels == [primary |-> p, secondary |-> q, enabled |-> en]
         IN  /\ Len(rs) > 0
             /\ csvRows' = rs
             /\ csvLabels' = labels
             /\ csvText' = exportCsv(rs, labels)
  /\ csvBy' = "exportCsv"

CsvReturn ==
  /\ csvBy # "none"
  /\ csvBy' = "none"
  /\ csvRows' = <<>>
  /\ csvLabels' = DefaultLabels
  /\ csvText' = <<>>

----------------------------------------------------------------------------
(* The Generate-button page of part_000.                                   *)

Null == "null"

CountMessage == "Number of creatives must be a positive integer."
TotalsMessage == "Totals cannot be negative."

NoEffects == [draws |-> 0, allocations |-> 0, downloaded |-> FALSE, file |-> <<>>]

\* Number(e.target.value): NaN, or a number in 1/Fix units
NaN == [nan |-> TRUE, v |-> 0]
Typed(S) == {NaN} \cup {[nan |-> FALSE, v |-> n] : n \in S}

\* Number(e.target.value) || 0
orZero(x) == IF x.nan THEN 0 ELSE x.v

\* what the user types: nothing valid, a negative number, a half, an integer
CountEntries == Typed({-Fix, 1, Num(2)})
TotalEntries == Typed({-Fix, 1, Num(1)})

\* mutant: the totals are not validated
validationErrorCountOnly(cc, ti, tn, tp) ==
  IF cc <= 0 \/ ~IsInteger(cc) THEN CountMessage ELSE Null

\* part_000 lines 130-141: the message of the failed check, or null.
\* Number.isFinite holds of every number of the model.
validationError(cc, ti, tn, tp) ==
  IF cc <= 0 \/ ~IsInteger(cc) THEN CountMessage
  ELSE IF ti < 0 \/ tn < 0 \/ tp < 0 THEN TotalsMessage
  ELSE Null

\* part_000 lines 118-125
PageInit ==
  /\ creativeCount = Num(10)
  /\ totalImpressions = Num(100000)
  /\ totalInstalls = Num(2000)
  /\ totalPaidEvents = Num(300)
  /\ style = "balanced"
  /\ rows = <<>>
  /\ error = Null
  /\ effects = NoEffects

\* part_000 lines 198-200
SetCreativeCount ==
  /\ \E x \in CountEntries : creativeCount' = orZero(x)
  /\ effects' = NoEffects
  /\ UNCHANGED <<totalImpressions, totalInstalls, totalPaidEvents, style, rows, error>>

\* part_000 lines 213-215
SetTotalImpressions ==
  /\ \E x \in TotalEntries : totalImpressions' = orZero(x)
  /\ effects' = NoEffects
  /\ UNCHANGED <<creativeCount, totalInstalls, totalPaidEvents, style, rows, error>>

\* part_000 lines 228-230
SetTotalInstalls ==
  /\ \E x \in TotalEntries : totalInstalls' = orZero(x)
  /\ effects' = NoEffects
  /\ UNCHANGED <<creativeCount, totalImpressions, totalPaidEvents, style, rows, error>>

\* part_000 lines 243-245
SetTotalPaidEvents ==
  /\ \E x \in TotalEntries : totalPaidEvents' = orZero(x)
  /\ effects' = NoEffects
  /\ UNCHANGED <<creativeCount, totalImpressions, totalInstalls, style, rows, error>>

\* part_000 line 256
SetStyle ==
  /\ \E st \in Styles : style' = st
  /\ effects' = NoEffects
  /\ UNCHANGED <<creativeCount, totalImpressions, totalInstalls, totalPaidEvents, rows, error>>

\* the inputs a generation is explored for
WithinBounds ==
  /\ creativeCount <= Num(MaxCount)
  /\ totalImpressions <= Num(MaxTotal)
  /\ totalInstalls <= Num(MaxTotal)
  /\ totalPaidEvents <= Num(MaxTotal)

\* part_000 handleGenerate (lines 127-160)
HandleGenerate ==
  LET err == validationError(creativeCount, totalImpressions, totalInstalls,
                             totalPaidEvents)
  IN  /\ IF err # Null
         THEN /\ error' = err
              /\ effects' = NoEffects
              /\ UNCHANGED rows
         ELSE /\ WithinBounds
              /\ \E rnd \in [1..Iterations(creativeCount) -> Draws] :
                   rows' = handleGenerateRows(creativeCount, totalImpressions,
                                              totalInstalls, totalPaidEvents, style, rnd)
              /\ error' = Null
              /\ effects' = [NoEffects EXCEPT !.draws = Iterations(creativeCount),
                                              !.allocations = 3]
      /\ UNCHANGED inputVars

\* part_000 lines 104-113 and 311: the button exists while rows is not empty
DownloadCSV ==
  /\ Len(rows) > 0
  /\ effects' = [NoEffects EXCEPT !.downloaded = TRUE, !.file = toCSV(rows)]
  /\ UNCHANGED <<inputVars, rows, error>>

NextPage ==
  \/ SetCreativeCount /\ UNCHANGED <<coreVars, csvVars, genVars>>
  \/ SetTotalImpressions /\ UNCHANGED <<coreVars, csvVars, genVars>>
  \/ SetTotalInstalls /\ UNCHANGED <<coreVars, csvVars, genVars>>
  \/ SetTotalPaidEvents /\ UNCHANGED <<coreVars, csvVars, genVars>>
  \/ SetStyle /\ UNCHANGED <<coreVars, csvVars, genVars>>
  \/ HandleGenerate /\ UNCHANGED <<coreVars, csvVars, genVars>>
  \/ DownloadCSV /\ UNCHANGED <<coreVars, csvVars, genVars>>

----------------------------------------------------------------------------
(* One generation cycle of each page, from the inputs to the rows.         *)

MaxRows == 3

\* counts and totals a cycle is run on; 1 is 0.5 and 3 is 1.5
GenCounts == {Num(n) : n \in 1..MaxRows} \cup {3}
GenTotals == {1, Num(2), Num(3)}

GenIdle ==
  /\ genBy = "none"
  /\ genCount = 0
  /\ genTotals = <<>>
  /\ genEnabled = FALSE
  /\ genWeights = NoWeights
  /\ genDraws = 0
  /\ genRows = <<>>

\* part_000 lines 143-159: handleGenerate once the validation has passed
GenerateCycle ==
  /\ genBy = "none"
  /\ \E cc \in GenCounts, ti \in GenTotals, tn \in GenTotals, tp \in GenTotals,
        st \in Styles :
       /\ validationError(cc, ti, tn, tp) = Null
       /\ \E rnd \in [1..Iterations(cc) -> Draws] :
            /\ genWeights' = generateWeights(cc, st, rnd)
            /\ genRows' = handleGenerateRows(cc, ti, tn, tp, st, rnd)
       /\ genCount' = cc
       /\ genTotals' = [impressions |-> ti, installs |-> tn, paidEvents |-> tp]
       /\ genDraws' = generateWeightsSteps(cc)
  /\ genEnabled' = FALSE
  /\ genBy' = "handleGenerate"

\* page.tsx lines 118-149: one evaluation of the creatives memo
CreativesCycle ==
  /\ genBy = "none"
  /\ \E cc \in GenCounts, v \in Variances, en \in BOOLEAN,
        t \in [{"impressions", "clicks", "installs", "primaryEvents",
                "secondaryEvents"} -> GenTotals] :
       /\ ~creativesThrows(cc, en)
       /\ \E rnd \in [1..Iterations(cc) -> Draws] :
            /\ genWeights' = generateWeightsPage(cc, v, rnd)
            /\ genRows' = creatives(cc, t, v, en, rnd)
       /\ genCount' = cc
       /\ genTotals' = t
       /\ genEnabled' = en
       /\ genDraws' = generateWeightsSteps(cc)
  /\ genBy' = "creatives"

\* the rows are rendered and the next cycle can start
CycleDone ==
  /\ genBy # "none"
  /\ genBy' = "none"
  /\ genCount' = 0
  /\ genTotals' = <<>>
  /\ genEnabled' = FALSE
  /\ genWeights' = NoWeights
  /\ genDraws' = 0
  /\ genRows' = <<>>

NextGen ==
  \/ GenerateCycle /\ UNCHANGED <<coreVars, csvVars, pageVars>>
  \/ CreativesCycle /\ UNCHANGED <<coreVars, csvVars, pageVars>>
  \/ CycleDone /\ UNCHANGED <<coreVars, csvVars, pageVars>>

Init == CoreInit /\ CsvIdle /\ PageInit /\ GenIdle

SpecGen == Init /\ [][NextGen]_vars

NextCsv ==
  \/ CallToCSV /\ UNCHANGED <<coreVars, pageVars, genVars>>
  \/ CallExportCsv /\ UNCHANGED <<coreVars, pageVars, genVars>>
  \/ CsvReturn /\ UNCHANGED <<coreVars, pageVars, genVars>>

SpecCsv == Init /\ [][NextCsv]_vars

SpecPage == Init /\ [][NextPage]_vars

Next ==
  \/ CallGenerateWeights /\ UNCHANGED <<csvVars, pageVars, genVars>>
  \/ CallGenerateWeightsPage /\ UNCHANGED <<csvVars, pageVars, genVars>>
  \/ PassWeights /\ UNCHANGED <<csvVars, pageVars, genVars>>
  \/ CallDistributeIntegerTotal /\ UNCHANGED <<csvVars, pageVars, genVars>>
  \/ CallDistribute /\ UNCHANGED <<csvVars, pageVars, genVars>>
  \/ Return /\ UNCHANGED <<csvVars, pageVars, genVars>>

Spec == Init /\ [][Next]_vars

----------------------------------------------------------------------------
(* Properties of the core functions, checked under Spec.                   *)

Allocated == phase = "allocated"

Generated == caller \in {"generateWeights", "generateWeightsPage"}

\* every entry positive and the entries sum to 1
PositiveSumOne(w) ==
  /\ WLen(w) >= 1
  /\ \A i \in 1..WLen(w) : w.num[i] > 0
  /\ w.den = SeqSum(w.num)

\* floor and fractional part (numerator over den*Fix) of total * w[i],
\* taken from the rational itself
ShareFloor(i) == (weights.num[i] * total) \div (weights.den * Fix)
ShareFrac(i) == (weights.num[i] * total) - ShareFloor(i) * (weights.den * Fix)

\* C1 as stated: for every integer total T >= 0, every bucket count N >= 0
\* (N = 0 included) and every profile, the allocation of T over
\* generateWeights(N, profile) sums exactly to T.
C1_ConservationAnyCount ==
  (Allocated /\ Generated /\ IsInteger(count) /\ count >= 0
     /\ IsInteger(total) /\ total >= 0)
  => SeqSum(result) = total

\* C1 amended: for every integer total T >= 0 and every profile, the
\* allocation sums exactly to T when there is at least one bucket; with no
\* bucket (N = 0) the result is the empty vector, whose sum is 0.
C1_Conservation ==
  (Allocated /\ Generated /\ IsInteger(total) /\ total >= 0)
  => /\ WLen(weights) >= 1 => SeqSum(result) = total
     /\ WLen(weights) = 0 => result = <<>>

\* the largest total over three generated "high" weights, where units beyond the floors
\* were awarded by distributeIntegerTotal
C1_Witness ==
  /\ Allocated /\ caller = "generateWeights" /\ profile = "high"
  /\ allocator = "distributeIntegerTotal"
  /\ total = Num(MaxTotal) /\ WLen(weights) = 3
  /\ \E i \in 1..3 : result[i] > Num(ShareFloor(i))
  /\ SeqSum(result) = total

\* C2 as stated: for every integer total >= 0 and positive weights summing
\* to 1, every entry returned by either allocator is a non-negative integer.
C2_NonNegative ==
  (Allocated /\ IsInteger(total) /\ total >= 0 /\ PositiveSumOne(weights))
  => \A i \in 1..Len(result) : IsInteger(result[i]) /\ result[i] >= 0

\* C3: for total > 0 and positive weights summing to 1, distributeIntegerTotal
\* returns floor(total*w[i]) plus one unit for each of the (total - sum of
\* floors) buckets that come first when ordered by fractional part
\* descending, then by index ascending; total 10 over [0.34, 0.33, 0.33]
\* gives [4, 3, 3].
FracRank(i) ==
  Cardinality({j \in 1..WLen(weights) :
                 \/ ShareFrac(j) > ShareFrac(i)
                 \/ ShareFrac(j) = ShareFrac(i) /\ j < i})

Shortfall ==
  (total - Num(SeqSum([i \in 1..WLen(weights) |-> ShareFloor(i)]))) \div Fix

C3_LargestRemainder ==
  /\ (Allocated /\ allocator = "distributeIntegerTotal"
        /\ IsInteger(total) /\ total > 0 /\ PositiveSumOne(weights))
     => /\ Len(result) = WLen(weights)
        /\ \A i \in 1..WLen(weights) :
             result[i] = Num(ShareFloor(i) + (IF FracRank(i) < Shortfall THEN 1 ELSE 0))
        /\ SeqSum(result) = total
  /\ distributeIntegerTotal(Num(10), [num |-> <<34, 33, 33>>, den |-> 100])
       = <<Num(4), Num(3), Num(3)>>

\* two buckets with equal fractional parts, of which only the lower index
\* gets the extra unit
C3_Witness ==
  /\ Allocated /\ allocator = "distributeIntegerTotal"
  /\ IsInteger(total) /\ total > 0 /\ PositiveSumOne(weights)
  /\ \E i, j \in 1..WLen(weights) :
       /\ i < j
       /\ ShareFrac(i) = ShareFrac(j)
       /\ result[i] = Num(ShareFloor(i) + 1)
       /\ result[j] = Num(ShareFloor(j))

\* C4: for total > 0 and N >= 1 weights, distribute gives every bucket but
\* the last the integer nearest to total*w[i] (halves up), and the last
\* bucket total minus the sum of the earlier ones; the result sums to total.
C4_RunningRemainder ==
  (Allocated /\ allocator = "distribute" /\ IsInteger(total) /\ total > 0
     /\ WLen(weights) >= 1)
  => LET n == WLen(weights)
         d == weights.den * Fix
     IN  /\ Len(result) = n
         /\ \A i \in 1..(n - 1) :
              /\ IsInteger(result[i])
              /\ LET r == result[i] \div Fix
                     x == weights.num[i] * total
                 IN  2 * r * d - d <= 2 * x /\ 2 * x < 2 * r * d + d
         /\ result[n] = total - SeqSum(SubSeq(result, 1, n - 1))
         /\ SeqSum(result) = total

\* a bucket before the last one whose share was rounded up
C4_Witness ==
  /\ Allocated /\ allocator = "distribute" /\ IsInteger(total) /\ total > 0
  /\ WLen(weights) >= 3
  /\ \E i \in 1..(WLen(weights) - 1) :
       /\ ShareFrac(i) > 0
       /\ result[i] = Num(ShareFloor(i) + 1)
  /\ result[WLen(weights)] > 0

\* C5: both allocators return as many entries as there are weights; when
\* total == 0 or weights is empty every entry is 0.
C5_LengthAndZero ==
  Allocated
  => /\ Len(result) = WLen(weights)
     /\ (total = 0 \/ WLen(weights) = 0) => \A i \in 1..Len(result) : result[i] = 0

\* total 0 over a vector of several weights
C5_Witness ==
  /\ Allocated /\ total = 0 /\ WLen(weights) = MaxCount
  /\ result = zeros(MaxCount)

\* C6 as stated: a bucket with a negative weight is treated as having 0
\* share; in particular it never receives a negative amount.
C6_NegativeWeightIsZeroShare ==
  (Allocated /\ IsInteger(total) /\ total > 0)
  => \A i \in 1..Len(result) : weights.num[i] < 0 => result[i] >= 0

\* C7: generateWeights with count < 0 returns the empty vector, as with
\* count 0, and both allocators with a negative total return the all-zero
\* vector of length len(weights), as with total 0.
C7_Clamping ==
  /\ (Generated /\ phase # "idle" /\ count < 0) => weights.num = <<>>
  /\ (Allocated /\ total < 0)
       => /\ result = zeros(WLen(weights))
          /\ result = distributeIntegerTotal(0, weights)
          /\ result = distribute(0, weights)

\* a negative total over several positive weights
C7_Witness ==
  /\ Allocated /\ allocator = "distributeIntegerTotal" /\ total < 0
  /\ PositiveSumOne(weights) /\ WLen(weights) >= 2
  /\ result = zeros(WLen(weights))

\* C8: for every integer count > 0, every profile and every sequence of
\* draws, generateWeights returns exactly count entries, each strictly
\* positive, summing to 1.
C8_WeightShape ==
  (Generated /\ phase # "idle" /\ IsInteger(count) /\ count > 0)
  => /\ Num(WLen(weights)) = count
     /\ \A i \in 1..WLen(weights) : weights.num[i] > 0
     /\ weights.den > 0
     /\ SeqSum(weights.num) = weights.den

\* a "high" vector in which a non-positive draw was replaced by the epsilon
C8_Witness ==
  /\ caller = "generateWeights" /\ phase = "weights" /\ profile = "high"
  /\ count = Num(3)
  /\ weights.num[2] = Epsilon
  /\ weights.num[1] > Epsilon

----------------------------------------------------------------------------
(* CSV round trip, checked under SpecCsv.                                  *)

\* A standard (RFC 4180) CSV reader: fields separated by commas, records by
\* newlines; a field that starts with a quote runs to its closing quote,
\* with "" standing for one quote.

\* the least member of a non-empty set of positions
Least(S) == CHOOSE x \in S : \A y \in S : x <= y

QuotesIn(t, lo, hi) == Cardinality({k \in lo..hi : t[k] = Quote})

\* the position of the quote that closes the field opened at position i, or
\* Len(t) + 1 when it is never closed: the first quote behind an even number
\* of quotes that is not followed by another quote
ClosingQuote(t, i) ==
  LET S == {j \in (i + 1)..Len(t) :
              /\ t[j] = Quote
              /\ QuotesIn(t, i + 1, j) % 2 = 1
              /\ (j = Len(t) \/ t[j + 1] # Quote)}
  IN  IF S = {} THEN Len(t) + 1 ELSE Least(S)

\* the position of the first comma or newline at or behind position i, or
\* Len(t) + 1
NextDelimiter(t, i) ==
  LET S == {j \in i..Len(t) : t[j] = Comma \/ t[j] = Newline}
  IN  IF S = {} THEN Len(t) + 1 ELSE Least(S)

\* the content of a quoted field: every "" is one quote
RECURSIVE Unescape(_)
Unescape(s) ==
  IF s = <<>> THEN <<>>
  ELSE IF Len(s) >= 2 /\ s[1] = Quote /\ s[2] = Quote
       THEN <<Quote>> \o Unescape(SubSeq(s, 3, Len(s)))
       ELSE <<s[1]>> \o Unescape(Tail(s))

\* reads the field that starts at position i, then goes on behind its
\* delimiter
RECURSIVE csvParse(_, _, _, _)
csvParse(t, i, rec, recs) ==
  LET quoted == i <= Len(t) /\ t[i] = Quote
      close == IF quoted THEN ClosingQuote(t, i) ELSE i - 1
      stop == NextDelimiter(t, close + 1)
      field == IF quoted
               THEN Unescape(SubSeq(t, i + 1, close - 1)) \o SubSeq(t, close + 1, stop - 1)
               ELSE SubSeq(t, i, stop - 1)
  IN  IF stop > Len(t) THEN Append(recs, Append(rec, field))
      ELSE IF t[stop] = Comma THEN csvParse(t, stop + 1, Append(rec, field), recs)
      ELSE csvParse(t, stop + 1, <<>>, Append(recs, Append(rec, field)))

ParsedCsv == csvParse(csvText, 1, <<>>, <<>>)

\* the field values the export was given: one header per column, then the
\* values of each row
CsvTable ==
  IF csvBy = "toCSV"
  THEN <<toCSVHeaders>> \o [k \in 1..Len(csvRows) |-> toCSVFields(csvRows[k])]
  ELSE << << <<"C", "r", "e", "a", "t", "i", "v", "e">>,
             <<"I", "m", "p", "r", "e", "s", "s", "i", "o", "n", "s">>,
             <<"C", "l", "i", "c", "k", "s">>,
             <<"I", "n", "s", "t", "a", "l", "l", "s">>,
             csvLabels.primary >>
          \o (IF csvLabels.enabled THEN <<csvLabels.secondary>> ELSE <<>>) >>
       \o [k \in 1..Len(csvRows) |-> exportCsvFields(csvRows[k], csvLabels)]

\* C9 as stated: parsing the text of either export with a standard CSV
\* reader recovers every field value verbatim, the header row included, and
\* every line has as many fields as there are columns.
C9_CsvRoundTrip ==
  csvBy # "none"
  => /\ ParsedCsv = CsvTable
     /\ \A k \in 1..Len(ParsedCsv) : Len(ParsedCsv[k]) = Len(CsvTable[1])

\* the part of C9 that the code does satisfy: the rows of toCSV, and the
\* data rows of exportCsv
CsvDataRowsRoundTrip ==
  csvBy # "none"
  => /\ csvBy = "toCSV" => ParsedCsv = CsvTable
     /\ csvBy = "exportCsv" =>
          LET header == join(exportCsvHeaders(csvLabels), Comma)
              body == SubSeq(csvText, Len(header) + 2, Len(csvText))
          IN  csvParse(body, 1, <<>>, <<>>) = Tail(CsvTable)

----------------------------------------------------------------------------
(* The Generate-button page, checked under SpecPage.                       *)

\* a creative count that is non-integer or <= 0, or a negative total
InvalidInputs ==
  \/ ~IsInteger(creativeCount)
  \/ creativeCount <= 0
  \/ totalImpressions < 0
  \/ totalInstalls < 0
  \/ totalPaidEvents < 0

\* C10: when handleGenerate runs on a creative count that is non-integer or
\* <= 0, or on any negative total, it sets a non-empty error message, draws
\* no weights, performs no allocation and leaves the rows unchanged.
C10_RejectInvalid ==
  [][(InvalidInputs /\ HandleGenerate)
       => /\ error' \in {CountMessage, TotalsMessage}
          /\ error' # ""
          /\ effects'.draws = 0
          /\ effects'.allocations = 0
          /\ rows' = rows]_vars

\* rows of an earlier generation still shown next to the message about a
\* negative total
C10_Witness ==
  /\ error = TotalsMessage
  /\ Len(rows) = 2
  /\ totalInstalls < 0
  /\ creativeCount = Num(2)
  /\ effects = NoEffects

----------------------------------------------------------------------------
(* Loop bounds, checked under Spec.                                        *)

\* C11: for every non-negative integer count and total, the loop of
\* generateWeights runs at most count iterations and the loop of either
\* allocator at most len(weights) iterations; the unit-awarding loop of
\* distributeIntegerTotal stops after len(weights) steps even when the
\* shortfall exceeds the number of buckets.
C11_Totality ==
  /\ (phase = "weights" /\ Generated /\ IsInteger(count) /\ count >= 0)
       => /\ Num(loopSteps) <= count
          /\ Num(WLen(weights)) = count
  /\ (Allocated /\ IsInteger(total) /\ total >= 0)
       => loopSteps <= WLen(weights)

\* weights that sum to less than 1, so that more units are missing than
\* there are buckets, and the loop stopped at the last bucket
C11_Witness ==
  /\ Allocated /\ allocator = "distributeIntegerTotal"
  /\ IsInteger(total) /\ total > 0
  /\ WLen(weights) >= 2
  /\ Shortfall > WLen(weights)
  /\ loopSteps = WLen(weights)

----------------------------------------------------------------------------
(* Order preservation of distributeIntegerTotal, checked under Spec.       *)

\* C13: for total > 0 and positive weights summing to 1,
\* distributeIntegerTotal never gives a bucket with a strictly larger weight
\* fewer units than a bucket with a smaller weight, and two buckets with
\* equal weights differ by at most 1 unit, the lower index never getting
\* less.
C13_OrderPreserved ==
  (Allocated /\ allocator = "distributeIntegerTotal"
     /\ total > 0 /\ PositiveSumOne(weights))
  => \A i, j \in 1..WLen(weights) :
       /\ weights.num[i] > weights.num[j] => result[i] >= result[j]
       /\ (weights.num[i] = weights.num[j] /\ i < j)
            => /\ result[i] >= result[j]
               /\ result[i] - result[j] <= Num(1)

\* a larger weight whose floor equals that of a smaller one and which got
\* the extra unit, and two equal weights one unit apart
C13_Witness ==
  /\ Allocated /\ allocator = "distributeIntegerTotal"
  /\ IsInteger(total) /\ total > 0 /\ PositiveSumOne(weights)
  /\ \E i, j \in 1..WLen(weights) :
       /\ weights.num[i] > weights.num[j]
       /\ ShareFloor(i) = ShareFloor(j)
       /\ result[i] = result[j] + Num(1)
  /\ \E i, j \in 1..WLen(weights) :
       /\ i < j
       /\ weights.num[i] = weights.num[j]
       /\ result[i] = result[j] + Num(1)

----------------------------------------------------------------------------
(* The rows of the Generate-button page, checked under SpecPage.           *)

\* the sum of one metric over the rows
ColumnSum(rs, metric) == SeqSum([i \in 1..Len(rs) |-> rs[i][metric]])

\* the inputs pass the validation of handleGenerate
PassesValidation ==
  validationError(creativeCount, totalImpressions, totalInstalls,
                  totalPaidEvents) = Null

\* rows has exactly cc entries with ids 1..cc
RowsNumbered(rs, cc) ==
  /\ Num(Len(rs)) = cc
  /\ \A i \in 1..Len(rs) : rs[i].id = Num(i)

\* C14: editing the creative count, a total or the style leaves rows and
\* error unchanged; rows are replaced only by a handleGenerate call that
\* passes validation, and after such a call rows has exactly creativeCount
\* entries with ids 1..creativeCount whose per-metric sums equal the totals
\* in effect at that call.
C14_RowsOnlyOnGenerate ==
  [][/\ (inputVars' # inputVars) => (rows' = rows /\ error' = error)
     /\ (rows' # rows) => (PassesValidation /\ HandleGenerate)
     /\ (PassesValidation /\ HandleGenerate)
          => /\ RowsNumbered(rows', creativeCount)
             /\ ColumnSum(rows', "impressions") = totalImpressions
             /\ ColumnSum(rows', "installs") = totalInstalls
             /\ ColumnSum(rows', "paidEvents") = totalPaidEvents]_vars

\* the same with the column sums required for integer totals only
C14_RowsOnlyOnGenerateIntegerTotals ==
  [][/\ (inputVars' # inputVars) => (rows' = rows /\ error' = error)
     /\ (rows' # rows) => (PassesValidation /\ HandleGenerate)
     /\ (PassesValidation /\ HandleGenerate)
          => /\ RowsNumbered(rows', creativeCount)
             /\ IsInteger(totalImpressions)
                  => ColumnSum(rows', "impressions") = totalImpressions
             /\ IsInteger(totalInstalls)
                  => ColumnSum(rows', "installs") = totalInstalls
             /\ IsInteger(totalPaidEvents)
                  => ColumnSum(rows', "paidEvents") = totalPaidEvents]_vars

\* rows generated for a total of 0.5: validation passed, and the column
\* holds one whole unit
C14_FractionalTotal ==
  /\ error = Null
  /\ effects.allocations = 3
  /\ ~IsInteger(totalInstalls)
  /\ RowsNumbered(rows, creativeCount)
  /\ ColumnSum(rows, "installs") # totalInstalls

----------------------------------------------------------------------------
(* Row assembly from one weight vector, checked under SpecGen.             *)

\* the metrics of the cycle: the secondary event is one only when enabled
GenMetrics ==
  IF genBy = "handleGenerate" THEN {"impressions", "installs", "paidEvents"}
  ELSE {"impressions", "clicks", "installs", "primaryEvents"}
       \cup (IF genEnabled THEN {"secondaryEvents"} ELSE {})

\* the allocation of a metric over the weight vector of the cycle
GenAllocation(metric) ==
  IF genBy = "handleGenerate"
  THEN distributeIntegerTotal(genTotals[metric], genWeights)
  ELSE distribute(genTotals[metric], genWeights)

\* the 1-based index of the row at position i
GenIndex(i) ==
  IF genBy = "handleGenerate" THEN genRows[i].id ELSE genRows[i].index

\* a finished cycle with an integer count N >= 1
IntegerCycle == genBy # "none" /\ IsInteger(genCount) /\ genCount >= Num(1)

\* the weights are drawn once, N rows are built, the row at position i has
\* index i + 1 (i counted from 0) and holds the i-th entry of every metric's
\* allocation over the one weight vector
AssembledFromOneVector ==
  /\ Num(genDraws) = genCount
  /\ WLen(genWeights) = genDraws
  /\ Num(Len(genRows)) = genCount
  /\ \A i \in 1..Len(genRows) :
       /\ GenIndex(i) = Num(i)
       /\ \A m \in GenMetrics : genRows[i][m] = GenAllocation(m)[i]

\* two metrics with equal totals have the same value in every row
EqualTotalsEqualColumns ==
  \A m1, m2 \in GenMetrics :
    genTotals[m1] = genTotals[m2]
      => \A i \in 1..Len(genRows) : genRows[i][m1] = genRows[i][m2]

\* C12: in one generation cycle with integer count N >= 1 the weight vector
\* is drawn once and reused for every metric, exactly N rows are produced,
\* the row at position i has 1-based index i + 1 and holds the i-th entry of
\* each metric's allocation; two metrics with equal totals get identical
\* values in every row, and each metric's column sums to that metric's total.
C12_RowAssembly ==
  IntegerCycle
  => /\ AssembledFromOneVector
     /\ EqualTotalsEqualColumns
     /\ \A m \in GenMetrics : ColumnSum(genRows, m) = genTotals[m]

\* the same with the column sum required of integer totals only
C12_RowAssemblyIntegerTotals ==
  IntegerCycle
  => /\ AssembledFromOneVector
     /\ EqualTotalsEqualColumns
     /\ \A m \in GenMetrics :
          IsInteger(genTotals[m]) => ColumnSum(genRows, m) = genTotals[m]

\* a cycle of the Generate-button page on a total of 0.5: the rows are
\* assembled from the one vector, and the column sums to 1
C12_FractionalTotal ==
  /\ IntegerCycle
  /\ genBy = "handleGenerate"
  /\ AssembledFromOneVector
  /\ \E m \in GenMetrics :
       /\ ~IsInteger(genTotals[m])
       /\ ColumnSum(genRows, m) = Num(1)

====
